---- MODULE Spec2Model ----
(***************************************************************************)
(* Verification model of the embedding pipeline of diskann-age-demo        *)
(* (src/generate_embeddings-orig.py).                                      *)
(*                                                                         *)
(* Part I models main() and the two batch functions as a state machine     *)
(* over the storage connection: the durable tables (db), the tables as     *)
(* seen inside the connection's open transaction (tx), and the locals of   *)
(* the running batch function.  In part I a stored vector is the symbolic  *)
(* value Vec(kind, id, gen): "the vector the embedder computes from the    *)
(* raw row id of table kind at data generation gen".                       *)
(*                                                                         *)
(* Storage is modelled at the interface the program uses: execute() either *)
(* applies the UPDATE inside the open transaction or raises and changes    *)
(* nothing; commit() makes the transaction's writes durable; rollback()    *)
(* and a lost connection discard them.  The commit after a loop, which is  *)
(* outside the per-entity try block, may raise and so reach main()'s       *)
(* except clause with writes pending.                                      *)
(*                                                                         *)
(* Part III models the agent runner of src/ai/langgraph_react_agent1.py:   *)
(* the tasks of its event loop (_main and the shutdown tasks the signal    *)
(* handlers create), which interleave at their awaits.                     *)
(***************************************************************************)
EXTENDS Integers, Sequences, FiniteSets, TLC

\* ------------------------------------------------------------ bounds
NumMovies == 201
NumUsers == 101
MaxArgc == 3
MaxRuns == 2
MaxDataGen == 2
MaxFaults == 6
MaxRerunFaults == 2
IdSpace == 1000

\* ------------------------------------------------- program constants
ChunkSize == 100

Kinds == {"movies", "users"}

Ids(kind) == IF kind = "movies" THEN 1..NumMovies ELSE 1..NumUsers

\* The entities whose processing the environment may make raise: the first
\* entity, the entity that closes the first chunk and the one after it.
FailPoints(kind) == {1, ChunkSize, ChunkSize + 1} \cap Ids(kind)

\* ------------------------------------------------------------ values
\* The embedding column holds NULL or a vector.  Vec(kind, e, g) names the
\* vector the embedder computes from row e of table kind at data generation g
\* (the embedders are deterministic: part II computes the vectors themselves).
NULL == 0

KindCode(kind) == IF kind = "movies" THEN 0 ELSE 1

Vec(kind, e, g) == (2 * g + KindCode(kind)) * IdSpace + e

EmptyTables == [k \in Kinds |-> [e \in Ids(k) |-> NULL]]

StaleTables == [k \in Kinds |-> [e \in Ids(k) |-> Vec(k, e, 0)]]

\* SELECT ... ORDER BY <id>: the identifiers of the table in ascending order.
FetchAll(kind) == [n \in 1..Cardinality(Ids(kind)) |-> n]

\* An UPDATE that only fills an empty column: ... AND embedding IS NULL
UpdateIfNull(store, kind, e, v) ==
    IF store[kind][e] = NULL THEN [store EXCEPT ![kind][e] = v] ELSE store

\* An UPDATE keyed by the wrong row.
UpdateNext(store, kind, e, v) ==
    [store EXCEPT ![kind][IF e + 1 \in Ids(kind) THEN e + 1 ELSE 1] = v]

\* UPDATE <kind> SET embedding = v WHERE <id> = e
Update(store, kind, e, v) == [store EXCEPT ![kind][e] = v]

\* An except clause that clears the failed entity's vector.
ClearedOnError(store, kind, e) == [store EXCEPT ![kind][e] = NULL]

\* An iteration that raises leaves the transaction as it was: the except
\* clause only logs.
StoreOnError(store, kind, e) == store

\* A counter incremented before the work of the iteration.
CountedAnyway(n) == n + 1

\* embeddings_generated += 1 comes after the UPDATE: an iteration that raises
\* does not reach it.
CountOnError(n) == n

\* A commit that is never issued.
NoCommit(durable, pending) == durable

\* conn.commit()
Commit(durable, pending) == pending

\* if (i + 1) % 100 == 0
ChunkDone(idx) == (idx + 1) % ChunkSize = 0

\* An except clause that tries the same row again.
RetryOnError(idx, n) == idx

\* An except clause that leaves the loop: break
BreakOnError(idx, n) == n

\* except Exception: ... continue
AfterError(idx, n) == idx + 1

VARIABLES pc, conn, exitCode, db, tx, dataGen, cur, rows, i,
          embeddings_generated, errors, attempted, written, lastCommit,
          ret, dbStart, hist, faults, argc, tables, events

vars == <<pc, conn, exitCode, db, tx, dataGen, cur, rows, i,
          embeddings_generated, errors, attempted, written, lastCommit,
          ret, dbStart, hist, faults, argc, tables, events>>

\* What main() holds: len(sys.argv) (0 before it is read), the relations the
\* query found (<<>> before the query), and the calls main() has made and the
\* returns it has seen, in order.
mainState == <<argc, tables, events>>

locals == <<cur, rows, i, embeddings_generated, attempted, written,
            lastCommit, ret>>

ghost == <<dbStart, hist, faults>>

\* Part II: one batch function over a small table, with the vectors computed.
VARIABLES ekind, items, actors, encoder, estore, ei, eerrors, etrace

evars == <<ekind, items, actors, encoder, estore, ei, eerrors, etrace>>

\* The variables of part III (the agent runner of
\* src/ai/langgraph_react_agent1.py).
VARIABLES GLOBAL_MCP_CLIENT, handlers, apc, result, closeCalls

avars == <<GLOBAL_MCP_CLIENT, handlers, apc, result, closeCalls>>

allvars == <<vars, evars, avars>>

\* ------------------------------------------------------------ bounds
MaxSignals == 2

\* The tasks of the event loop: _main (0) and the shutdown tasks the signal
\* handlers create.
MainTask == 0

Tasks == 0..MaxSignals

\* The one client _build_graph constructs.
Clients == {1}

NoClient == 0

\* Part III is not running.
AgentIdle ==
    /\ GLOBAL_MCP_CLIENT = NoClient
    /\ handlers = "idle"
    /\ apc = [t \in Tasks |-> "idle"]
    /\ result = [t \in Tasks |-> "none"]
    /\ closeCalls = [c \in Clients |-> 0]

\* Part II is not running.
EmbedIdle ==
    /\ ekind = "none"
    /\ items = <<>>
    /\ actors = <<>>
    /\ encoder = [len |-> 0, zero |-> TRUE]
    /\ estore = <<>>
    /\ ei = 0
    /\ eerrors = <<>>
    /\ etrace = [kind |-> "none"]

\* A fresh process: nothing connected, nothing fetched.
ProcessStart ==
    /\ pc = "args"
    /\ conn = "none"
    /\ exitCode = -1
    /\ cur = "none"
    /\ rows = <<>>
    /\ i = 0
    /\ embeddings_generated = 0
    /\ errors = <<>>
    /\ attempted = <<>>
    /\ written = {}
    /\ lastCommit = 0
    /\ ret = [value |-> "running"]
    /\ argc = 0
    /\ tables = <<>>
    /\ events = <<>>

InitWith(budget) ==
    /\ ProcessStart
    /\ db \in {EmptyTables, StaleTables}
    /\ tx = db
    /\ dataGen = 1
    /\ dbStart = db
    /\ hist = <<>>
    /\ faults = budget
    /\ EmbedIdle
    /\ AgentIdle

Init == InitWith(MaxFaults)

InitRerun == InitWith(MaxRerunFaults)

\* ------------------------------------------------------------- main
MainArgs ==
    /\ pc = "args"
    /\ \E n \in 1..MaxArgc :
         /\ argc' = n
         /\ IF n # 2
            THEN /\ pc' = "exited"
                 /\ exitCode' = 1
            ELSE /\ pc' = "connect"
                 /\ UNCHANGED exitCode
    /\ UNCHANGED <<conn, db, tx, dataGen, locals, errors, ghost, tables, events>>
    /\ UNCHANGED <<evars, avars>>

ConnectToDb ==
    /\ pc = "connect"
    /\ \E ok \in BOOLEAN :
         IF ok
         THEN /\ conn' = "open"
              /\ pc' = "tables"
              /\ UNCHANGED exitCode
         ELSE /\ pc' = "exited"
              /\ exitCode' = 1
              /\ UNCHANGED conn
    /\ UNCHANGED <<db, tx, dataGen, locals, errors, ghost, mainState>>
    /\ UNCHANGED <<evars, avars>>

RequiredTables == {"users", "movies", "ratings"}

\* A check that only notices when no relation at all was found.
NoneFound(found) == found = {}

\* if len(tables) != 3
TablesMissing(found) == Cardinality(found) # 3

\* The query for the three relations; sys.exit(1) inside the try block goes
\* through the finally clause.
CheckTables ==
    /\ pc = "tables"
    /\ \E found \in SUBSET RequiredTables :
         /\ tables' = <<found>>
         /\ pc' = IF TablesMissing(found) THEN "sysexit" ELSE "movies_begin"
    /\ UNCHANGED <<conn, exitCode, db, tx, dataGen, locals, errors, ghost,
                   argc, events>>
    /\ UNCHANGED <<evars, avars>>

\* ----------------------------------------------------- batch runner
LoopPc(kind) == IF kind = "movies" THEN "movies_loop" ELSE "users_loop"

BeginPc(kind) == IF kind = "movies" THEN "movies_begin" ELSE "users_begin"

\* A main() that verifies right after the first batch function.
StraightToVerify(kind) == "verify"

\* generate_movie_embeddings(conn); generate_user_embeddings(conn);
\* verify_embeddings(conn)
ReturnPc(kind) == IF kind = "movies" THEN "users_begin" ELSE "verify"

FunctionOf(kind) ==
    IF kind = "movies" THEN "generate_movie_embeddings" ELSE "generate_user_embeddings"

\* The call, the model load (movies), the queries and the setup before the
\* loop; any of them raising leaves the function by the exception.
BatchBegin(kind) ==
    /\ pc = BeginPc(kind)
    /\ events' = Append(events, <<"call", FunctionOf(kind)>>)
    /\ \/ /\ cur' = kind
          /\ rows' = FetchAll(kind)
          /\ i' = 0
          /\ embeddings_generated' = 0
          /\ attempted' = <<>>
          /\ written' = {}
          /\ lastCommit' = 0
          /\ ret' = [value |-> "running"]
          /\ pc' = LoopPc(kind)
       \/ /\ pc' = "except"
          /\ UNCHANGED locals
    /\ UNCHANGED <<conn, exitCode, db, tx, dataGen, errors, ghost, argc, tables>>
    /\ UNCHANGED <<evars, avars>>

\* One iteration of the for loop over the fetched rows.
BatchStep(kind) ==
    /\ pc = LoopPc(kind)
    /\ i < Len(rows)
    /\ LET e == rows[i + 1] IN
         /\ attempted' = Append(attempted, e)
         /\ \/ /\ tx' = Update(tx, kind, e, Vec(kind, e, dataGen))
               /\ embeddings_generated' = embeddings_generated + 1
               /\ written' = written \cup {e}
               /\ i' = i + 1
               /\ IF ChunkDone(i)
                  THEN /\ db' = Commit(db, tx')
                       /\ lastCommit' = i + 1
                  ELSE UNCHANGED <<db, lastCommit>>
               /\ UNCHANGED <<errors, faults>>
            \/ /\ e \in FailPoints(kind)
               /\ faults > 0
               /\ faults' = faults - 1
               /\ errors' = Append(errors, <<kind, e>>)
               /\ i' = AfterError(i, Len(rows))
               /\ tx' = StoreOnError(tx, kind, e)
               /\ embeddings_generated' = CountOnError(embeddings_generated)
               /\ UNCHANGED <<db, written, lastCommit>>
    /\ UNCHANGED <<pc, conn, exitCode, dataGen, cur, rows, ret, dbStart, hist,
                   mainState>>
    /\ UNCHANGED <<evars, avars>>

\* The statements after the loop: conn.commit(), cursor.close(), the log
\* line.  They are outside the try block: if the commit raises (the storage
\* became unreachable) nothing is made durable and the exception leaves the
\* function.
BatchEnd(kind) ==
    /\ pc = LoopPc(kind)
    /\ i >= Len(rows)
    /\ \/ /\ db' = Commit(db, tx)
          /\ lastCommit' = i
          /\ ret' = [value |-> "None"]
          /\ pc' = ReturnPc(kind)
          /\ events' = Append(events, <<"return", FunctionOf(kind)>>)
       \/ /\ pc' = "except"
          /\ UNCHANGED <<db, lastCommit, ret, events>>
    /\ UNCHANGED <<conn, exitCode, tx, dataGen, cur, rows, i,
                   embeddings_generated, errors, attempted, written, ghost,
                   argc, tables>>
    /\ UNCHANGED <<evars, avars>>

MoviesBegin == BatchBegin("movies")

MovieStep == BatchStep("movies")

MoviesEnd == BatchEnd("movies")

UsersBegin == BatchBegin("users")

UserStep == BatchStep("users")

UsersEnd == BatchEnd("users")

\* Three SELECT statements and the log lines; a query may raise.
VerifyEmbeddings ==
    /\ pc = "verify"
    /\ \/ /\ pc' = "finally"
          /\ events' = events \o <<<<"call", "verify_embeddings">>,
                                    <<"return", "verify_embeddings">>>>
       \/ /\ pc' = "except"
          /\ events' = Append(events, <<"call", "verify_embeddings">>)
    /\ UNCHANGED <<conn, exitCode, db, tx, dataGen, locals, errors, ghost,
                   argc, tables>>
    /\ UNCHANGED <<evars, avars>>

\* An except clause that re-raises without rolling back.
NoRollback(durable, pending) == pending

\* conn.rollback(): the open transaction's writes are discarded.
Rollback(durable, pending) == durable

\* except Exception as e: logger.error(...); conn.rollback(); raise
MainExcept ==
    /\ pc = "except"
    /\ tx' = Rollback(db, tx)
    /\ pc' = "reraise"
    /\ UNCHANGED <<conn, exitCode, db, dataGen, locals, errors, ghost, mainState>>
    /\ UNCHANGED <<evars, avars>>

\* finally: conn.close(), on the normal path, on sys.exit(1) and on the
\* re-raised exception.  Closing ends the open transaction without a commit.
MainFinally ==
    /\ pc \in {"finally", "sysexit", "reraise"}
    /\ tx' = db
    /\ conn' = "closed"
    /\ pc' = IF pc = "reraise" THEN "raised" ELSE "exited"
    /\ exitCode' = IF pc = "finally" THEN 0 ELSE 1
    /\ UNCHANGED <<db, dataGen, locals, errors, ghost, mainState>>
    /\ UNCHANGED <<evars, avars>>

\* ------------------------------------------------------ environment
Terminal == pc \in {"exited", "raised", "crashed"}

\* What the finished process did: how it ended, over which data, from which
\* tables to which tables, and the entities it logged an error for.
ThisRun ==
    [how |-> IF pc = "exited" /\ exitCode = 0 THEN "completed" ELSE pc,
     gen |-> dataGen,
     start |-> dbStart,
     end |-> db,
     failed |-> {errors[n] : n \in 1..Len(errors)}]

\* The process is killed while connected: its memory is gone, the server
\* discards the open transaction, committed chunks remain.
Crash ==
    /\ conn = "open"
    /\ ~Terminal
    /\ tx' = db
    /\ conn' = "closed"
    /\ pc' = "crashed"
    /\ exitCode' = 137
    /\ cur' = "none"
    /\ rows' = <<>>
    /\ i' = 0
    /\ embeddings_generated' = 0
    /\ errors' = <<>>
    /\ attempted' = <<>>
    /\ written' = {}
    /\ lastCommit' = 0
    /\ ret' = [value |-> "running"]
    /\ argc' = 0
    /\ tables' = <<>>
    /\ events' = <<>>
    /\ UNCHANGED <<db, dataGen, ghost>>
    /\ UNCHANGED <<evars, avars>>

\* python generate_embeddings.py <connection_string>, once more, after a run
\* that completed or crashed.
Restart ==
    /\ Terminal
    /\ ThisRun.how \in {"completed", "crashed"}
    /\ Len(hist) + 1 < MaxRuns
    /\ hist' = Append(hist, ThisRun)
    /\ dbStart' = db
    /\ pc' = "args"
    /\ conn' = "none"
    /\ exitCode' = -1
    /\ cur' = "none"
    /\ rows' = <<>>
    /\ i' = 0
    /\ embeddings_generated' = 0
    /\ errors' = <<>>
    /\ attempted' = <<>>
    /\ written' = {}
    /\ lastCommit' = 0
    /\ ret' = [value |-> "running"]
    /\ argc' = 0
    /\ tables' = <<>>
    /\ events' = <<>>
    /\ UNCHANGED <<db, tx, dataGen, faults>>
    /\ UNCHANGED <<evars, avars>>

\* load_movielens_data.py between two runs: every table is emptied and
\* filled from the files, which leaves every embedding NULL.
LoadData ==
    /\ pc = "args"
    /\ dataGen < MaxDataGen
    /\ dataGen' = dataGen + 1
    /\ db' = EmptyTables
    /\ tx' = EmptyTables
    /\ dbStart' = EmptyTables
    /\ UNCHANGED <<pc, conn, exitCode, locals, errors, hist, faults, mainState>>
    /\ UNCHANGED <<evars, avars>>

Next ==
    \/ MainArgs
    \/ ConnectToDb
    \/ CheckTables
    \/ MoviesBegin
    \/ MovieStep
    \/ MoviesEnd
    \/ UsersBegin
    \/ UserStep
    \/ UsersEnd
    \/ VerifyEmbeddings
    \/ MainExcept
    \/ MainFinally

NextRerun ==
    \/ Next
    \/ Crash
    \/ Restart
    \/ LoadData

Spec == Init /\ [][Next]_allvars

SpecRerun == InitRerun /\ [][NextRerun]_allvars

\* ================================================================
\* Part II: the embedders, with the vectors computed
\* ================================================================
\* ------------------------------------------------------------ bounds
EmbMovies == 2
EmbUsers == 2

\* ------------------------------------------------- program constants
TextDim == 110
EmbeddingDim == 128
NumGenres == 18
AgeLow == 18
AgeHigh == 73
RatingCountCap == 100
StddevCap == 2
RatingLow == 1
RatingSpan == 4

\* ---------------------------------------------------------- numbers
\* The floating-point values of the program are modelled as exact rationals
\* [n, d] in lowest terms with d > 0.
Abs(x) == IF x < 0 THEN 0 - x ELSE x

RECURSIVE GCD(_, _)
GCD(a, b) == IF b = 0 THEN a ELSE GCD(b, a % b)

Rat(n, d) == LET g == GCD(Abs(n), d) IN [n |-> n \div g, d |-> d \div g]

RInt(k) == [n |-> k, d |-> 1]

RAdd(a, b) == Rat(a.n * b.d + b.n * a.d, a.d * b.d)

RSub(a, b) == Rat(a.n * b.d - b.n * a.d, a.d * b.d)

RMul(a, b) == Rat(a.n * b.n, a.d * b.d)

\* a / b for b > 0
RDiv(a, b) == Rat(a.n * b.d, a.d * b.n)

RLess(a, b) == a.n * b.d < b.n * a.d

\* min(a, b)
RMin(a, b) == IF RLess(b, a) THEN b ELSE a

\* None, or a value
None == <<>>

Some(x) == <<x>>

\* Python truth of an optional number (None and 0 are false) and of an
\* optional string (None and "" are false).
TruthyNum(x) == x # None /\ x[1].n # 0

TruthyStr(x) == x # None /\ x[1] # ""

\* x or default
OrElse(x, default) == IF TruthyNum(x) THEN x[1] ELSE default

\* ------------------------------------------------ length reconciling
\* A slice that keeps the last n values instead: v[-n:]
TakeLast(v, n) == SubSeq(v, Len(v) - n + 1, Len(v))

\* v[:n]
Take(v, n) == SubSeq(v, 1, n)

\* A pad that is one zero too long.
PadOneMore(v, n) == v \o [k \in 1..(n + 1) |-> RInt(0)]

\* np.pad(v, (0, n)): n zeros after v; a negative n raises ValueError.
Pad(v, n) == v \o [k \in 1..n |-> RInt(0)]

PadRaises(n) == n < 0

\* if len(text_embedding) > 110: [:110] else: np.pad(..., (0, 110 - len))
ResizeText(te) ==
    IF Len(te) > TextDim THEN Take(te, TextDim) ELSE Pad(te, TextDim - Len(te))

ResizeTextRaises(te) == Len(te) <= TextDim /\ PadRaises(TextDim - Len(te))

\* if len(combined_embedding) > 128: [:128] else: np.pad(..., (0, 128 - len))
ResizeCombined(ce) ==
    IF Len(ce) > EmbeddingDim
    THEN Take(ce, EmbeddingDim)
    ELSE Pad(ce, EmbeddingDim - Len(ce))

ResizeCombinedRaises(ce) ==
    Len(ce) <= EmbeddingDim /\ PadRaises(EmbeddingDim - Len(ce))

\* np.pad(user_features, (0, 128 - len(user_features)))
PadUser(uf) == Pad(uf, EmbeddingDim - Len(uf))

PadUserRaises(uf) == PadRaises(EmbeddingDim - Len(uf))

\* ----------------------------------------------------- normalization
\* The sum of the squares of v[lo..hi], by halves.
RECURSIVE SumSq(_, _, _)
SumSq(v, lo, hi) ==
    IF lo > hi THEN RInt(0)
    ELSE IF lo = hi THEN RMul(v[lo], v[lo])
    ELSE LET mid == (lo + hi) \div 2
         IN  RAdd(SumSq(v, lo, mid), SumSq(v, mid + 1, hi))

\* The square of np.linalg.norm(v).
NormSq(v) == SumSq(v, 1, Len(v))

\* A vector stored as computed, never divided by its norm.
Unnormalized(v) == [k \in 1..Len(v) |-> [q |-> v[k], rad |-> RInt(1)]]

\* An element of a stored vector is q / sqrt(rad): after the division by the
\* norm rad is the squared norm, and it is 1 when nothing was divided.
\* if embedding_norm > 0: v = v / embedding_norm
Normalize(v) ==
    LET s == NormSq(v)
        by == IF RLess(RInt(0), s) THEN s ELSE RInt(1)
    IN  [k \in 1..Len(v) |-> [q |-> v[k], rad |-> by]]

\* ------------------------------------------------------ item embedder
GenreNames ==
    <<"action", "adventure", "animation", "children", "comedy", "crime",
      "documentary", "drama", "fantasy", "film noir", "horror", "musical",
      "mystery", "romance", "sci-fi", "thriller", "war", "western">>

\* [genre_names[j] for j, is_active in enumerate(genres) if is_active]
RECURSIVE ActiveFrom(_, _)
ActiveFrom(genres, j) ==
    IF j > Len(genres)
    THEN <<>>
    ELSE (IF genres[j] THEN <<GenreNames[j]>> ELSE <<>>) \o ActiveFrom(genres, j + 1)

ActiveGenres(genres) == ActiveFrom(genres, 1)

\* ' '.join(words)
RECURSIVE Join(_)
Join(words) ==
    IF words = <<>> THEN ""
    ELSE IF Len(words) = 1 THEN words[1]
    ELSE words[1] \o " " \o Join(Tail(words))

\* A genre text without the placeholder for a movie of no genre.
GenreTextNoPlaceholder(genres) == Join(ActiveGenres(genres))

\* ' '.join(active_genres) if active_genres else 'general'
GenreText(genres) ==
    IF ActiveGenres(genres) # <<>> THEN Join(ActiveGenres(genres)) ELSE "general"

\* f"{title} {genre_text}"
TextForEmbedding(title, genres) == title \o " " \o GenreText(genres)

\* model.encode(text): the collaborator is a black box that is a function of
\* the text; its output has encoder.len values.
Encode(text) ==
    [k \in 1..encoder.len |-> IF encoder.zero THEN RInt(0) ELSE RInt(k + Len(text))]

\* np.array(genres, dtype=float)
GenreVector(genres) ==
    [j \in 1..Len(genres) |-> IF genres[j] THEN RInt(1) ELSE RInt(0)]

\* The identifier of the row at idx with the attributes of the row after it.
NeighbourRow(table, idx) ==
    [id |-> table[idx].id] @@ table[(idx % Len(table)) + 1]

\* for i, movie in enumerate(movies) / for i, user in enumerate(users)
RowAt(table, idx) == table[idx]

\* The body of the movie loop for the row at idx, with its intermediate values.
MovieTrace(table, idx) ==
    LET movie == RowAt(table, idx)
        text == TextForEmbedding(movie.title, movie.genres)
        raw == Encode(text)
        sized == ResizeText(raw)
        genre_vector == GenreVector(movie.genres)
        combined == sized \o genre_vector
        fitted == ResizeCombined(combined)
    IN  [kind |-> "movies",
         id |-> movie.id,
         text |-> text,
         raw |-> raw,
         sized |-> sized,
         combined |-> combined,
         fitted |-> fitted,
         raised |-> ResizeTextRaises(raw) \/ ResizeCombinedRaises(combined),
         vector |-> Normalize(fitted)]

\* ----------------------------------------------------- actor embedder
\* The modelled occupation strings in lexicographic order, the order
\* LabelEncoder sorts its classes in.
AlphaOrder == <<"artist", "doctor", "engineer", "lawyer", "student">>

AlphaPos(o) == CHOOSE k \in 1..Len(AlphaOrder) : AlphaOrder[k] = o

\* occupations = list(set([user[3] for user in users if user[3]]))
Occupations(table) ==
    {table[n].occupation[1] : n \in {m \in 1..Len(table) : TruthyStr(table[m].occupation)}}

\* occupation_encoder.transform([occupation])[0]: the index of the occupation
\* among the sorted classes.
LabelIndex(o, classes) == Cardinality({c \in classes : AlphaPos(c) < AlphaPos(o)})

\* An age normalizer whose default for an absent age is 0.
AgeAbsentAsZero(age) ==
    IF TruthyNum(age)
    THEN RDiv(RSub(age[1], RInt(AgeLow)), RInt(AgeHigh - AgeLow))
    ELSE RInt(0)

\* (age - 18) / (73 - 18) if age else 0.5
AgeNormalized(age) ==
    IF TruthyNum(age)
    THEN RDiv(RSub(age[1], RInt(AgeLow)), RInt(AgeHigh - AgeLow))
    ELSE Rat(1, 2)

\* 1.0 if gender == 'M' else 0.0
GenderEncoded(gender) == IF gender = Some("M") THEN RInt(1) ELSE RInt(0)

OccupationEncoded(occupation, occupations) ==
    IF TruthyStr(occupation) /\ occupation[1] \in occupations
    THEN Rat(LabelIndex(occupation[1], occupations), Cardinality(occupations))
    ELSE RInt(0)

\* The neutral rating 2.5
Neutral == Rat(5, 2)

\* (v - 1) / 4
RatingScaled(v) == RDiv(RSub(v, RInt(RatingLow)), RInt(RatingSpan))

\* Rating features with the mean before the count.
RatingFeaturesMeanFirst(num_ratings, avg_rating, rating_stddev) ==
    <<RatingScaled(OrElse(avg_rating, Neutral)),
      RMin(RDiv(OrElse(num_ratings, RInt(0)), RInt(RatingCountCap)), RInt(1)),
      RMin(RDiv(OrElse(rating_stddev, RInt(0)), RInt(StddevCap)), RInt(1))>>

\* [min(num_ratings / 100.0, 1.0), (avg_rating - 1) / 4,
\*  min(rating_stddev / 2.0, 1.0)]
RatingFeatures(num_ratings, avg_rating, rating_stddev) ==
    <<RMin(RDiv(OrElse(num_ratings, RInt(0)), RInt(RatingCountCap)), RInt(1)),
      RatingScaled(OrElse(avg_rating, Neutral)),
      RMin(RDiv(OrElse(rating_stddev, RInt(0)), RInt(StddevCap)), RInt(1))>>

\* np.where(pd.isna(prefs), 2.5, prefs), then (prefs - 1) / 4
GenrePrefVector(prefs) ==
    [j \in 1..Len(prefs) |->
        RatingScaled(IF prefs[j] = None THEN Neutral ELSE prefs[j][1])]

\* The body of the user loop for the row at idx, with its intermediate values.
UserTrace(table, idx) ==
    LET user == RowAt(table, idx)
        occupations == Occupations(table)
        features ==
            <<AgeNormalized(user.age),
              GenderEncoded(user.gender),
              OccupationEncoded(user.occupation, occupations)>>
            \o RatingFeatures(user.num_ratings, user.avg_rating, user.rating_stddev)
            \o GenrePrefVector(user.prefs)
        fitted == PadUser(features)
    IN  [kind |-> "users",
         id |-> user.id,
         features |-> features,
         fitted |-> fitted,
         raised |-> PadUserRaises(features),
         vector |-> Normalize(fitted)]

\* ------------------------------------------------------------ inputs
NoGenres == [j \in 1..NumGenres |-> FALSE]

Flags(active) == [j \in 1..NumGenres |-> j \in active]

MovieInputs ==
    {[title |-> t, genres |-> g] :
        t \in {"Toy Story", "Heat"},
        g \in {NoGenres, Flags({3, 4}), Flags(1..NumGenres)}}

\* Output lengths of the text-embedding collaborator: none, one, around the
\* text sub-length, and beyond the whole vector.
EncoderLengths ==
    {0, 1, TextDim - 1, TextDim, TextDim + 1, EmbeddingDim + 2}

Encoders == {[len |-> n, zero |-> z] : n \in EncoderLengths, z \in BOOLEAN}

NoPrefs == [j \in 1..NumGenres |-> None]

SomePrefs ==
    [j \in 1..NumGenres |->
        IF j = 1 THEN Some(RInt(5)) ELSE IF j = 2 THEN Some(Rat(7, 2)) ELSE None]

\* A user of the dataset with every attribute present.
BaseUser ==
    [age |-> Some(RInt(25)), gender |-> Some("F"), occupation |-> Some("engineer"),
     num_ratings |-> Some(RInt(50)), avg_rating |-> Some(Rat(7, 2)),
     rating_stddev |-> Some(RInt(1)), prefs |-> NoPrefs]

\* What the ratings of a user aggregate to: no rating, one rating, many.
RatingProfiles ==
    {[num_ratings |-> Some(RInt(0)), avg_rating |-> None, rating_stddev |-> None,
      prefs |-> NoPrefs],
     [num_ratings |-> Some(RInt(1)), avg_rating |-> Some(RInt(5)), rating_stddev |-> None,
      prefs |-> SomePrefs],
     [num_ratings |-> Some(RInt(150)), avg_rating |-> Some(RInt(1)),
      rating_stddev |-> Some(RInt(0)), prefs |-> SomePrefs],
     [num_ratings |-> Some(RInt(2)), avg_rating |-> Some(RInt(3)),
      rating_stddev |-> Some(Rat(14, 5)), prefs |-> NoPrefs]}

\* The base user with one attribute, or its ratings, varied; and a user with
\* every optional attribute absent.
UserInputs ==
    {[BaseUser EXCEPT !.age = a] :
        a \in {None, Some(RInt(7)), Some(RInt(AgeLow)), Some(RInt(AgeHigh)), Some(RInt(80))}}
    \cup {[BaseUser EXCEPT !.gender = g] : g \in {None, Some("M")}}
    \cup {[BaseUser EXCEPT !.occupation = o] :
            o \in {None, Some(""), Some("artist"), Some("student")}}
    \cup {[BaseUser EXCEPT !.num_ratings = r.num_ratings, !.avg_rating = r.avg_rating,
                           !.rating_stddev = r.rating_stddev, !.prefs = r.prefs] :
            r \in RatingProfiles}
    \cup {BaseUser,
          [age |-> None, gender |-> None, occupation |-> None,
           num_ratings |-> Some(RInt(0)), avg_rating |-> None,
           rating_stddev |-> None, prefs |-> NoPrefs]}

\* A table: the table in ascending identifier order, identifiers 1..n.
WithIds(inputs, n) ==
    {[m \in 1..n |-> [id |-> m] @@ f[m]] : f \in [1..n -> inputs]}

MovieTables == WithIds(MovieInputs, EmbMovies)

UserTables == WithIds(UserInputs, EmbUsers)

NoVector == <<>>

InitEmbed ==
    /\ ProcessStart
    /\ db = EmptyTables
    /\ tx = db
    /\ dataGen = 1
    /\ dbStart = db
    /\ hist = <<>>
    /\ faults = 0
    /\ ekind \in Kinds
    /\ IF ekind = "movies"
       THEN /\ items \in MovieTables
            /\ actors = <<>>
            /\ encoder \in Encoders
            /\ estore = [m \in 1..EmbMovies |-> NoVector]
       ELSE /\ items = <<>>
            /\ actors \in UserTables
            /\ encoder = [len |-> 0, zero |-> TRUE]
            /\ estore = [m \in 1..EmbUsers |-> NoVector]
    /\ ei = 0
    /\ eerrors = <<>>
    /\ etrace = [kind |-> "none"]
    /\ AgentIdle

\* One iteration of the movie loop: compute, then UPDATE movies SET embedding.
EmbedMovie ==
    /\ ekind = "movies"
    /\ ei < Len(items)
    /\ LET t == MovieTrace(items, ei + 1) IN
         /\ etrace' = t
         /\ IF t.raised
            THEN /\ eerrors' = Append(eerrors, t.id)
                 /\ UNCHANGED estore
            ELSE /\ estore' = [estore EXCEPT ![t.id] = t.vector]
                 /\ UNCHANGED eerrors
    /\ ei' = ei + 1
    /\ UNCHANGED <<vars, ekind, items, actors, encoder, avars>>

\* One iteration of the user loop: compute, then UPDATE users SET embedding.
EmbedUser ==
    /\ ekind = "users"
    /\ ei < Len(actors)
    /\ LET t == UserTrace(actors, ei + 1) IN
         /\ etrace' = t
         /\ IF t.raised
            THEN /\ eerrors' = Append(eerrors, t.id)
                 /\ UNCHANGED estore
            ELSE /\ estore' = [estore EXCEPT ![t.id] = t.vector]
                 /\ UNCHANGED eerrors
    /\ ei' = ei + 1
    /\ UNCHANGED <<vars, ekind, items, actors, encoder, avars>>

NextEmbed ==
    \/ EmbedMovie
    \/ EmbedUser

SpecEmbed == InitEmbed /\ [][NextEmbed]_allvars

\* ================================================================
\* Part III: the agent runner and its shutdown
\* ================================================================
\* The module is loaded: _GLOBAL_MCP_CLIENT = None (line 17), no handler
\* installed, _main not started, no shutdown task.
InitAgent ==
    /\ ProcessStart
    /\ db = EmptyTables
    /\ tx = db
    /\ dataGen = 1
    /\ dbStart = db
    /\ hist = <<>>
    /\ faults = 0
    /\ EmbedIdle
    /\ GLOBAL_MCP_CLIENT = NoClient
    /\ handlers = "none"
    /\ apc = [t \in Tasks |-> IF t = MainTask THEN "start" ELSE "absent"]
    /\ result = [t \in Tasks |-> "none"]
    /\ closeCalls = [c \in Clients |-> 0]

\* loop.run_until_complete(_main()) runs the loop until _main has returned
\* or raised; no task is resumed after that.
MainFinished == apc[MainTask] \in {"done", "failed"}

LoopRunning == handlers \in {"installed", "unsupported"} /\ ~MainFinished

\* _install_signal_handlers(loop): add_signal_handler registers the two
\* handlers, or raises NotImplementedError, which is swallowed.
InstallSignalHandlers ==
    /\ handlers = "none"
    /\ handlers' \in {"installed", "unsupported"}
    /\ UNCHANGED <<vars, evars, GLOBAL_MCP_CLIENT, apc, result, closeCalls>>

\* The first step of _main: graph() and _build_graph() up to
\* await _GLOBAL_MCP_CLIENT.get_tools(); the global handle is set at line 22.
MainBuild ==
    /\ LoopRunning
    /\ apc[MainTask] = "start"
    /\ \E c \in Clients : GLOBAL_MCP_CLIENT' = c
    /\ apc' = [apc EXCEPT ![MainTask] = "get_tools"]
    /\ UNCHANGED <<vars, evars, handlers, result, closeCalls>>

\* get_tools() returned: create_react_agent, setattr, return g; then
\* await g.ainvoke(...).
MainTools ==
    /\ LoopRunning
    /\ apc[MainTask] = "get_tools"
    /\ apc' = [apc EXCEPT ![MainTask] = "ainvoke"]
    /\ UNCHANGED <<vars, evars, GLOBAL_MCP_CLIENT, handlers, result, closeCalls>>

\* get_tools() or ainvoke() raised: _main ends by the exception and never
\* reaches its _shutdown call.
MainFails ==
    /\ LoopRunning
    /\ apc[MainTask] \in {"get_tools", "ainvoke"}
    /\ apc' = [apc EXCEPT ![MainTask] = "failed"]
    /\ UNCHANGED <<vars, evars, GLOBAL_MCP_CLIENT, handlers, result, closeCalls>>

\* _shutdown() from its call to its first suspension: the test of the
\* handle (line 42), and when it is a client the call of close() on it
\* (line 44).  close() either suspends the caller, with the handle still
\* set, or ends at once by a return or an exception, and then the finally
\* clause resets the handle (line 46).
Enter(t) ==
    IF GLOBAL_MCP_CLIENT = NoClient
    THEN /\ apc' = [apc EXCEPT ![t] = "done"]
         /\ result' = [result EXCEPT ![t] = "noop"]
         /\ UNCHANGED <<GLOBAL_MCP_CLIENT, closeCalls>>
    ELSE /\ closeCalls' = [closeCalls EXCEPT ![GLOBAL_MCP_CLIENT] = @ + 1]
         /\ \/ /\ apc' = [apc EXCEPT ![t] = "closing"]
               /\ UNCHANGED <<GLOBAL_MCP_CLIENT, result>>
            \/ /\ apc' = [apc EXCEPT ![t] = "done"]
               /\ GLOBAL_MCP_CLIENT' = NoClient
               /\ \E outcome \in {"closed", "raised"} :
                      result' = [result EXCEPT ![t] = outcome]

\* ainvoke() returned: the two prints, then await _shutdown() (line 63),
\* which runs in _main's task up to its first suspension.
MainShutdown ==
    /\ LoopRunning
    /\ apc[MainTask] = "ainvoke"
    /\ Enter(MainTask)
    /\ UNCHANGED <<vars, evars, handlers>>

\* SIGINT or SIGTERM is delivered while the loop runs: the handler calls
\* asyncio.create_task(_shutdown()) (line 51).  The loop runs the first
\* step of _main before any callback of a signal.
SignalHandler ==
    /\ handlers = "installed"
    /\ LoopRunning
    /\ apc[MainTask] # "start"
    /\ \E t \in Tasks \ {MainTask} :
         /\ apc[t] = "absent"
         /\ \A u \in Tasks \ {MainTask} : u < t => apc[u] # "absent"
         /\ apc' = [apc EXCEPT ![t] = "created"]
    /\ UNCHANGED <<vars, evars, GLOBAL_MCP_CLIENT, handlers, result, closeCalls>>

\* The loop runs the first step of a shutdown task.
TaskShutdown ==
    /\ LoopRunning
    /\ \E t \in Tasks \ {MainTask} :
         /\ apc[t] = "created"
         /\ Enter(t)
    /\ UNCHANGED <<vars, evars, handlers>>

\* close() ends, by a return or an exception, in a task that was suspended
\* in it: the finally clause sets the handle to None (line 46) and
\* _shutdown ends.
CloseEnds ==
    /\ LoopRunning
    /\ \E t \in Tasks :
         /\ apc[t] = "closing"
         /\ apc' = [apc EXCEPT ![t] = "done"]
         /\ \E outcome \in {"closed", "raised"} :
                result' = [result EXCEPT ![t] = outcome]
    /\ GLOBAL_MCP_CLIENT' = NoClient
    /\ UNCHANGED <<vars, evars, handlers, closeCalls>>

NextAgent ==
    \/ InstallSignalHandlers
    \/ MainBuild
    \/ MainTools
    \/ MainFails
    \/ MainShutdown
    \/ SignalHandler
    \/ TaskShutdown
    \/ CloseEnds

SpecAgent == InitAgent /\ [][NextAgent]_allvars

\* ================================================================
\* Properties of the batch runner (part I)
\* ================================================================
Range(seq) == {seq[n] : n \in 1..Len(seq)}

\* The entities of table kind this process logged an error for.
FailedIds(kind) == {e \in Ids(kind) : <<kind, e>> \in Range(errors)}

\* The batch function over table kind has returned and no later one started.
Returned(kind) == cur = kind /\ ret.value = "None"

InLoop(kind) == cur = kind /\ pc = LoopPc(kind)

AllFresh(g) == [k \in Kinds |-> [e \in Ids(k) |-> Vec(k, e, g)]]

\* The finished processes, the current one included once it has ended.
Runs == IF Terminal THEN Append(hist, ThisRun) ELSE hist

\* Two processes in a row over the same data generation.
Successive(k, how1, how2) ==
    /\ k \in 1..(Len(Runs) - 1)
    /\ Runs[k].how = how1
    /\ Runs[k + 1].how = how2
    /\ Runs[k].gen = Runs[k + 1].gen

\* C1 -- Failure isolation.  While a batch function runs, the entities
\* attempted so far are exactly the first i fetched rows, whatever raised on
\* the way: an iteration that raises is logged and the loop moves to the next
\* row.  Every attempted entity is either written or logged as failed, never
\* both, and the function returns only after every fetched row was attempted.
C1_FailureIsolation ==
    \A kind \in Kinds :
        cur = kind =>
            /\ i <= Len(rows)
            /\ attempted = SubSeq(rows, 1, i)
            /\ FailedIds(kind) \cup written = Range(attempted)
            /\ FailedIds(kind) \cap written = {}
            /\ Returned(kind) => attempted = FetchAll(kind)

\* A movie run has returned in which the entity closing the first chunk
\* raised and the entities after it, up to the last, were still written.
C1_Witness ==
    /\ Returned("movies")
    /\ FailedIds("movies") = {ChunkSize}
    /\ ChunkSize + 1 \in written
    /\ NumMovies \in written

C4_Idempotent ==
    \A k \in 1..(Len(Runs) - 1) :
        Successive(k, "completed", "completed") => Runs[k + 1].end = Runs[k].end

\* C4 -- Idempotence, amended: every entity that holds its vector after the
\* first run holds the same vector after the second; an entity whose stored
\* value differs after the second run is one that raised in the first run,
\* and it now holds the vector computed from its unchanged attributes.
C4_IdempotentWherePersisted ==
    \A k \in 1..(Len(Runs) - 1) :
        Successive(k, "completed", "completed") =>
            \A kind \in Kinds : \A e \in Ids(kind) :
                LET before == Runs[k].end[kind][e]
                    after == Runs[k + 1].end[kind][e]
                    v == Vec(kind, e, Runs[k].gen)
                IN  /\ before = v => after = v
                    /\ after # before =>
                           /\ <<kind, e>> \in Runs[k].failed
                           /\ after = v

\* Two completed runs over the same data: one entity raised in both, another
\* raised in neither, and the tables are the same after both.
C4_Witness ==
    /\ Successive(1, "completed", "completed")
    /\ Runs[1].failed = {<<"movies", 1>>}
    /\ Runs[2].failed = {<<"movies", 1>>}
    /\ Runs[2].end = Runs[1].end
    /\ Runs[2].end["movies"][2] = Vec("movies", 2, Runs[2].gen)

\* What one uninterrupted run from tables start leaves when the entities in
\* failed raise: the vector of this generation, or the prior value.
Uninterrupted(start, failed, g) ==
    [k \in Kinds |-> [e \in Ids(k) |->
        IF <<k, e>> \in failed THEN start[k][e] ELSE Vec(k, e, g)]]

C7_DurableAtReturn ==
    \A kind \in Kinds :
        Returned(kind) =>
            /\ tx = db
            /\ lastCommit = Len(rows)
            /\ \A e \in written : db[kind][e] = Vec(kind, e, dataGen)

\* A movie run has returned whose last write came after the last periodic
\* commit.
C7_Witness ==
    /\ Returned("movies")
    /\ NumMovies \in written
    /\ ~ChunkDone(NumMovies - 1)
    /\ db["movies"][NumMovies] = Vec("movies", NumMovies, dataGen)

\* ================================================================
\* Properties of the embedders (part II)
\* ================================================================
\* The entities whose vector this run has written.
Embedded == {e \in 1..ei : estore[e] # NoVector}

\* The tables that agree with table on the row of entity e.
AgreeingOn(universe, table, e) == {alt \in universe : alt[e] = table[e]}

\* C8 -- Embedder purity, as claimed: the vector written for an entity is the
\* one computed from any dataset that agrees on that entity's own attributes.
C8_Purity ==
    \A e \in Embedded :
        /\ ekind = "movies" =>
               \A alt \in AgreeingOn(MovieTables, items, e) :
                   MovieTrace(alt, e).vector = estore[e]
        /\ ekind = "users" =>
               \A alt \in AgreeingOn(UserTables, actors, e) :
                   UserTrace(alt, e).vector = estore[e]

\* C8 -- Embedder purity, amended: an item's vector depends only on the
\* item's own attributes (and the collaborator's output for its text); a
\* user's vector depends on the user's own attributes and on the set of
\* distinct occupations observed over all users, which fixes the rank and the
\* divisor of the occupation ordinal.
C8_PurityGivenOccupations ==
    \A e \in Embedded :
        /\ ekind = "movies" =>
               \A alt \in AgreeingOn(MovieTables, items, e) :
                   MovieTrace(alt, e).vector = estore[e]
        /\ ekind = "users" =>
               \A alt \in AgreeingOn(UserTables, actors, e) :
                   Occupations(alt) = Occupations(actors) =>
                       UserTrace(alt, e).vector = estore[e]

\* A user with an occupation has been embedded, and another dataset with the
\* same occupations differs from this one in the attributes of another user.
C8_Witness ==
    /\ ekind = "users"
    /\ 1 \in Embedded
    /\ TruthyStr(actors[1].occupation)
    /\ Cardinality(Occupations(actors)) = 2
    /\ \E alt \in AgreeingOn(UserTables, actors, 1) :
           /\ alt # actors
           /\ Occupations(alt) = Occupations(actors)

\* C9 -- Fixed dimension.  Every stored vector has exactly 128 elements,
\* whatever the length of the text embedding, the genre flags and the absent
\* user attributes.
C9_FixedDimension ==
    \A e \in 1..Len(estore) :
        estore[e] # NoVector => Len(estore[e]) = EmbeddingDim

\* Vectors were stored for all movies under a text embedding longer than the
\* whole vector.
C9_Witness ==
    /\ ekind = "movies"
    /\ encoder.len > EmbeddingDim
    /\ Embedded = 1..EmbMovies

\* v reconciled to length n: the first values of v in their places, zeros
\* after them.
Reconciled(v, out, n) ==
    /\ Len(out) = n
    /\ \A k \in 1..n : out[k] = IF k <= Len(v) THEN v[k] ELSE RInt(0)

\* C10 -- Truncation/padding.  The text embedding is reconciled to 110 values
\* and the fused vector to 128: the retained values keep their places, zeros
\* fill the tail, and no length makes the iteration raise.
C10_TruncatePad ==
    /\ etrace.kind = "movies" =>
           /\ Reconciled(etrace.raw, etrace.sized, TextDim)
           /\ Reconciled(etrace.combined, etrace.fitted, EmbeddingDim)
    /\ etrace.kind = "users" =>
           Reconciled(etrace.features, etrace.fitted, EmbeddingDim)
    /\ etrace.kind # "none" => ~etrace.raised
    /\ eerrors = <<>>

\* A movie was embedded whose text embedding was longer than 110 values and
\* not all zero.
C10_Witness ==
    /\ etrace.kind = "movies"
    /\ Len(etrace.raw) > TextDim
    /\ etrace.raw[1] # RInt(0)
    /\ etrace.id \in Embedded

\* A stored vector whose elements share the radicand rad has the squared
\* Euclidean norm (sum of q^2) / rad: its norm is 1 when the two are equal.
HasUnitNorm(v) ==
    /\ \A k \in 1..Len(v) : v[k].rad = v[1].rad
    /\ RLess(RInt(0), v[1].rad)
    /\ NormSq([k \in 1..Len(v) |-> v[k].q]) = v[1].rad

IsZeroVector(v) == \A k \in 1..Len(v) : v[k] = RInt(0)

\* C11 -- Normalization.  The stored vector is the fitted length-128 vector
\* with every element divided by its Euclidean norm when that norm is
\* positive, and its norm is then 1; an all-zero fitted vector is stored
\* unchanged, as a success and without an error line.
C11_Normalization ==
    etrace.kind \in Kinds =>
        LET f == etrace.fitted
            v == estore[etrace.id]
        IN  /\ ~etrace.raised
            /\ etrace.id \notin Range(eerrors)
            /\ v = etrace.vector
            /\ Len(v) = Len(f)
            /\ \A k \in 1..Len(v) : v[k].q = f[k]
            /\ IF IsZeroVector(f)
               THEN \A k \in 1..Len(v) : v[k] = [q |-> RInt(0), rad |-> RInt(1)]
               ELSE HasUnitNorm(v)

\* Both cases in one run: the first movie, without text signal and without
\* genre, gave the zero vector and was stored; the second gave a vector
\* that was divided by its norm.
C11_Witness ==
    /\ ekind = "movies"
    /\ ei = 2
    /\ eerrors = <<>>
    /\ estore[1] # NoVector
    /\ \A k \in 1..EmbeddingDim : estore[1][k].q = RInt(0)
    /\ estore[2] # NoVector
    /\ estore[2][1].rad # RInt(1)
    /\ HasUnitNorm(estore[2])

InUnitRange(x) == ~RLess(x, RInt(0)) /\ ~RLess(RInt(1), x)

\* C12 -- Normalizer range: each of the 24 normalized features of a user
\* lies in [0, 1], for every raw value, absent and out-of-range ones included.
C12_NormalizerRange ==
    etrace.kind = "users" =>
        \A k \in 1..Len(etrace.features) : InUnitRange(etrace.features[k])

\* The raw row of the user the last iteration embedded.
TracedUser == actors[etrace.id]

\* C13 -- Absent-value defaults.  For an absent raw value the feature is the
\* documented default: 1/2 for age, 0 for gender, 0 for an absent or empty
\* occupation, 0 for no rating count and no rating stddev, 3/8 for no mean
\* rating and for each absent genre preference; the iteration does not raise
\* and the user's vector is stored.
C13_AbsentDefaults ==
    etrace.kind = "users" =>
        LET u == TracedUser
            f == etrace.features
        IN  /\ u.age = None => f[1] = Rat(1, 2)
            /\ u.gender = None => f[2] = RInt(0)
            /\ ~TruthyStr(u.occupation) => f[3] = RInt(0)
            /\ ~TruthyNum(u.num_ratings) => f[4] = RInt(0)
            /\ u.avg_rating = None => f[5] = Rat(3, 8)
            /\ u.rating_stddev = None => f[6] = RInt(0)
            /\ \A j \in 1..NumGenres : u.prefs[j] = None => f[6 + j] = Rat(3, 8)
            /\ ~etrace.raised
            /\ eerrors = <<>>
            /\ estore[etrace.id] = etrace.vector

\* A user with every optional attribute absent was embedded and stored.
C13_Witness ==
    /\ etrace.kind = "users"
    /\ TracedUser.age = None
    /\ TracedUser.gender = None
    /\ TracedUser.occupation = None
    /\ TracedUser.avg_rating = None
    /\ TracedUser.rating_stddev = None
    /\ TracedUser.prefs = NoPrefs
    /\ estore[etrace.id] # NoVector

\* ================================================================
\* Properties of main() and of the order of the work (part I)
\* ================================================================
\* Nothing of the embedding work has happened in this process.
NoWork ==
    /\ events = <<>>
    /\ cur = "none"
    /\ attempted = <<>>
    /\ written = {}
    /\ tx = dbStart
    /\ db = dbStart

\* C14 -- Fatal preconditions precede all work.  Any embedding work implies
\* exactly one command-line argument, an open connection and all three
\* relations found; a wrong argument count, a failed connect and a missing
\* relation each end the process with a non-zero status and no work done.
C14_FatalPreconditions ==
    /\ ~NoWork =>
           /\ argc = 2
           /\ conn # "none"
           /\ tables = <<RequiredTables>>
    /\ argc \notin {0, 2} => pc = "exited" /\ exitCode = 1 /\ NoWork
    /\ (pc = "exited" /\ conn = "none") => exitCode = 1 /\ NoWork
    /\ (tables # <<>> /\ tables # <<RequiredTables>>) =>
           /\ pc \in {"sysexit", "exited"}
           /\ pc = "exited" => exitCode = 1
           /\ NoWork

\* The process exited with status 1 because the ratings relation was missing,
\* after a successful connect, and nothing was embedded or written.
C14_Witness ==
    /\ pc = "exited"
    /\ exitCode = 1
    /\ argc = 2
    /\ conn = "closed"
    /\ tables = <<{"users", "movies"}>>
    /\ NoWork

\* C15 -- Single pass in order.  The rows are the entities of the kind in
\* ascending identifier order; the entities attempted are a prefix of them,
\* strictly ascending (each once); no entity has two error lines; the
\* function leaves the loop only after the last row.
C15_SinglePassInOrder ==
    \A kind \in Kinds :
        cur = kind =>
            /\ rows = [n \in 1..Cardinality(Ids(kind)) |-> n]
            /\ Len(attempted) <= Len(rows)
            /\ attempted = SubSeq(rows, 1, Len(attempted))
            /\ \A n \in 1..(Len(attempted) - 1) : attempted[n] < attempted[n + 1]
            /\ \A m, n \in 1..Len(errors) : m # n => errors[m] # errors[n]
            /\ pc # LoopPc(kind) => attempted = rows

\* A user run returned after two entities had raised: every user was
\* attempted, the failed ones once.
C15_Witness ==
    /\ Returned("users")
    /\ FailedIds("users") = {1, ChunkSize}
    /\ Len(attempted) = NumUsers
    /\ Len(errors) = 2

\* main() has called verify_embeddings.
VerifyCalled == <<"call", "verify_embeddings">> \in Range(events)

\* C16 -- Verifier is read-only and last.  verify_embeddings is called once,
\* after generate_movie_embeddings and generate_user_embeddings have both
\* returned, and its step leaves the durable tables, the open transaction
\* and the raw data as they were.
C16_VerifierReadOnlyLast ==
    /\ [](VerifyCalled =>
            /\ Len(events) >= 5
            /\ SubSeq(events, 1, 5) =
                   <<<<"call", "generate_movie_embeddings">>,
                     <<"return", "generate_movie_embeddings">>,
                     <<"call", "generate_user_embeddings">>,
                     <<"return", "generate_user_embeddings">>,
                     <<"call", "verify_embeddings">>>>
            /\ Len(events) <= 6
            /\ Len(events) = 6 => events[6] = <<"return", "verify_embeddings">>)
    /\ [][pc = "verify" => db' = db /\ tx' = tx /\ dataGen' = dataGen]_allvars

\* The verifier returned after a user run with writes and a failure.
C16_Witness ==
    /\ pc = "finally"
    /\ Len(events) = 6
    /\ FailedIds("users") = {ChunkSize}
    /\ tx = db
    /\ db["users"][1] = Vec("users", 1, dataGen)

\* C19 -- Write frame.  In every step the raw data stay as they are; the
\* value of an entity inside the transaction changes only when the batch
\* function of its own table processes that very entity (to its vector) or
\* when pending writes are discarded; the durable value of an entity changes
\* only to its own vector written in the running batch function.
C19_WriteFrame ==
    [][/\ dataGen' = dataGen
       /\ \A k \in Kinds : \A e \in Ids(k) :
            /\ tx'[k][e] # tx[k][e] =>
                   \/ /\ pc = LoopPc(k)
                      /\ i < Len(rows)
                      /\ e = rows[i + 1]
                      /\ tx'[k][e] = Vec(k, e, dataGen)
                   \/ tx'[k][e] = db[k][e]
            /\ db'[k][e] # db[k][e] =>
                   /\ cur = k
                   /\ e \in written'
                   /\ db'[k][e] = Vec(k, e, dataGen)]_allvars

\* The second movie has just been written over an older vector: inside the
\* transaction only the first two movies differ from the durable table.
C19_Witness ==
    /\ pc = "movies_loop"
    /\ i = 2
    /\ written = {1, 2}
    /\ dbStart = StaleTables
    /\ \A e \in Ids("movies") : tx["movies"][e] # db["movies"][e] <=> e \in {1, 2}
    /\ tx["users"] = db["users"]

\* C20 -- Fatal-error cleanup in main.  Once connected, the process ends
\* with the connection closed on every path; an escaping exception is
\* followed by a rollback while the connection is still open (the pending
\* writes are discarded, the durable tables keep every committed chunk), then
\* by the close, and the process ends by the exception with a non-zero
\* status.
C20_FatalCleanup ==
    /\ []((pc \in {"exited", "raised"} /\ tables # <<>>) =>
              conn = "closed" /\ tx = db)
    /\ [](conn = "none" => tables = <<>>)
    /\ [](pc = "reraise" => conn = "open" /\ tx = db)
    /\ [](pc = "raised" => exitCode # 0)
    /\ [][pc = "except" => pc' = "reraise" /\ db' = db /\ tx' = db]_allvars
    /\ [][pc = "reraise" => pc' = "raised" /\ db' = db /\ conn' = "closed"]_allvars

\* The commit after the movie loop raised: the process ended by the
\* exception with the connection closed, the last movie's write discarded
\* and the two committed chunks in place.
C20_Witness ==
    /\ pc = "raised"
    /\ conn = "closed"
    /\ cur = "movies"
    /\ dbStart = EmptyTables
    /\ NumMovies \in written
    /\ db["movies"][NumMovies] = NULL
    /\ \A e \in 1..(2 * ChunkSize) : db["movies"][e] = Vec("movies", e, dataGen)
    /\ tx = db

\* ================================================================
\* Properties of the feature construction (part II)
\* ================================================================
\* The raw row of the movie the last iteration embedded.
TracedMovie == items[etrace.id]

AllGenresText ==
    "action adventure animation children comedy crime documentary drama "
    \o "fantasy film noir horror musical mystery romance sci-fi thriller "
    \o "war western"

\* C17 -- Item feature construction.  The text handed to the collaborator is
\* the title, one space and the names of the active genres in the declared
\* order joined by single spaces, or "general" when no flag is active; the
\* 18 flags stand as 0/1 at positions 110..127 of the vector before
\* normalization (here 111..128), a 1 exactly where a flag is active.
C17_ItemFeatures ==
    etrace.kind = "movies" =>
        LET m == TracedMovie
            active == {j \in 1..NumGenres : m.genres[j]}
        IN  /\ active = {} => etrace.text = m.title \o " general"
            /\ active = {3, 4} => etrace.text = m.title \o " animation children"
            /\ active = 1..NumGenres =>
                   etrace.text = m.title \o " " \o AllGenresText
            /\ Len(etrace.fitted) = TextDim + NumGenres
            /\ \A j \in 1..NumGenres :
                   etrace.fitted[TextDim + j] = IF j \in active THEN RInt(1) ELSE RInt(0)
            /\ \A j \in 1..NumGenres :
                   estore[etrace.id][TextDim + j].q = etrace.fitted[TextDim + j]

\* "Toy Story" with the animation and children flags was embedded.
C17_Witness ==
    /\ etrace.kind = "movies"
    /\ TracedMovie.title = "Toy Story"
    /\ etrace.text = "Toy Story animation children"
    /\ {j \in 1..NumGenres : etrace.fitted[TextDim + j] = RInt(1)} = {3, 4}
    /\ estore[etrace.id] # NoVector

\* The value an attribute stands for: its own, or the default when absent
\* or zero.
ValueOr(x, default) == IF x = None \/ x[1].n = 0 THEN default ELSE x[1]

\* x / cap, at most 1.
Capped(x, cap) == IF x.n >= cap * x.d THEN RInt(1) ELSE Rat(x.n, cap * x.d)

\* (x - 1) / 4
FromOneToFive(x) == Rat(x.n - x.d, 4 * x.d)

\* The occupations of the table that sort before occupation o.
SortingBefore(table, o) ==
    {table[n].occupation[1] : n \in {m \in 1..Len(table) :
        /\ table[m].occupation \notin {None, Some("")}
        /\ \E a, b \in 1..Len(AlphaOrder) :
              a < b /\ AlphaOrder[a] = table[m].occupation[1] /\ AlphaOrder[b] = o}}

DistinctOccupations(table) ==
    {table[n].occupation[1] : n \in {m \in 1..Len(table) :
        table[m].occupation \notin {None, Some("")}}}

\* The 24 features of the claim for user u of table.
ClaimedLayout(table, u) ==
    <<IF u.age = None \/ u.age[1].n = 0
      THEN Rat(1, 2)
      ELSE Rat(u.age[1].n - 18 * u.age[1].d, 55 * u.age[1].d),
      IF u.gender = Some("M") THEN RInt(1) ELSE RInt(0),
      IF u.occupation \in {None, Some("")}
      THEN RInt(0)
      ELSE Rat(Cardinality(SortingBefore(table, u.occupation[1])),
               Cardinality(DistinctOccupations(table))),
      Capped(ValueOr(u.num_ratings, RInt(0)), 100),
      FromOneToFive(ValueOr(u.avg_rating, Rat(5, 2))),
      Capped(ValueOr(u.rating_stddev, RInt(0)), 2)>>
    \o [j \in 1..18 |->
          IF u.prefs[j] = None THEN Rat(3, 8) ELSE FromOneToFive(u.prefs[j][1])]

\* The user of the example in a table of five users with five occupations.
ExampleTable ==
    [m \in 1..5 |->
        [id |-> m, age |-> Some(RInt(25)), gender |-> Some("F"),
         occupation |-> Some(AlphaOrder[((m + 1) % 5) + 1]),
         num_ratings |-> Some(RInt(50)), avg_rating |-> Some(Rat(7, 2)),
         rating_stddev |-> Some(RInt(1)), prefs |-> NoPrefs]]

ExampleFeatures ==
    <<Rat(7, 55), RInt(0), Rat(2, 5), Rat(1, 2), Rat(5, 8), Rat(1, 2)>>
    \o [j \in 1..18 |-> Rat(3, 8)]

\* C18 -- Actor feature layout.  The vector before normalization is the
\* three demographic features, the three rating features and the 18 genre
\* preferences, in this order at positions 0..23 (here 1..24), and zeros at
\* positions 24..127; the user of the example gets
\* [7/55, 0, 2/5, 1/2, 5/8, 1/2, eighteen times 3/8, 104 zeros].
C18_ActorLayout ==
    etrace.kind = "users" =>
        /\ etrace.features = ClaimedLayout(actors, TracedUser)
        /\ Len(etrace.fitted) = EmbeddingDim
        /\ SubSeq(etrace.fitted, 1, 24) = etrace.features
        /\ \A k \in 25..EmbeddingDim : etrace.fitted[k] = RInt(0)
        /\ \A k \in 1..EmbeddingDim : estore[etrace.id][k].q = etrace.fitted[k]
        /\ ExampleTable[1].occupation = Some("engineer")
        /\ UserTrace(ExampleTable, 1).fitted =
               ExampleFeatures \o [k \in 1..104 |-> RInt(0)]

\* The user of the example, here with an occupation of rank 1 among 2, was
\* embedded.
C18_Witness ==
    /\ etrace.kind = "users"
    /\ TracedUser = [id |-> 2] @@ BaseUser
    /\ actors[1].occupation = Some("artist")
    /\ SubSeq(etrace.features, 1, 7) =
           <<Rat(7, 55), RInt(0), Rat(1, 2), Rat(1, 2), Rat(5, 8), Rat(1, 2), Rat(3, 8)>>
    /\ estore[2] # NoVector

\* ================================================================
\* Properties of the agent's shutdown (part III)
\* ================================================================
\* The calls of _shutdown that have completed.
Completed == {t \in Tasks : result[t] # "none"}

\* Whenever a call of _shutdown completes, by a return or by the exception
\* of close(), the handle is None.
ShutdownClearsHandle ==
    [][\A t \in Tasks :
          result[t] = "none" /\ result'[t] # "none" => GLOBAL_MCP_CLIENT' = NoClient]_allvars

\* A call of _shutdown that starts after another has completed calls
\* close() on nothing.
LaterShutdownIsNoOp ==
    [][\A t \in Tasks :
          /\ Completed # {}
          /\ apc[t] \in {"created", "ainvoke"}
          /\ apc'[t] \in {"closing", "done"}
          => result'[t] = "noop" /\ closeCalls' = closeCalls]_allvars

\* close() has been called at most once on every client.
CloseAtMostOnce == \A c \in Clients : closeCalls[c] <= 1

\* C21 -- Agent shutdown.  After any call of _shutdown completes the global
\* client handle is None, whether or not close() raised, and a later call of
\* _shutdown is a no-op; over every interleaving of the shutdown tasks of
\* the signal handlers with the _shutdown call at the end of _main, close()
\* is called at most once on a given client.
C21_AgentShutdown ==
    /\ ShutdownClearsHandle
    /\ LaterShutdownIsNoOp
    /\ []CloseAtMostOnce

\* A shutdown task and _main's own _shutdown were both suspended in close():
\* the client was closed twice.
C21_DoubleClose ==
    /\ closeCalls[1] = 2
    /\ \E t \in Tasks \ {MainTask} : apc[t] = "closing"
    /\ apc[MainTask] = "closing"

\* A call of _shutdown completed by the exception of close(), and a later
\* one found no client.
C21_Witness ==
    /\ \E t \in Tasks : result[t] = "raised"
    /\ \E t \in Tasks : result[t] = "noop"
    /\ GLOBAL_MCP_CLIENT = NoClient

====
